---- MODULE Spec2Model ----
(***************************************************************************)
(* VoiceLink call session coordinator (src/voicelink-integration.js) with  *)
(* the relay tables of src/database-schema.sql.                            *)
(*                                                                         *)
(* Two clients, each configured with the other as friendUser, share the    *)
(* users / calls / signaling tables.  Every async method of the class is   *)
(* cut at its awaits: the first piece runs in the action that invokes the  *)
(* method, every later piece is a task in tasks[c] that a Resume action    *)
(* runs.  A relay request takes effect when it is issued; its response     *)
(* (the resume) arrives later, after any number of other handlers.         *)
(* Realtime notifications of one client travel over one websocket and are  *)
(* kept in one FIFO inbox per client.  The transport library is modelled   *)
(* by the signaling state machine of RTCPeerConnection; only the object    *)
(* currently held in this.peerConnection is tracked, because the           *)
(* connection-state callback reads this.peerConnection.connectionState.    *)
(***************************************************************************)
EXTENDS Integers, Sequences, FiniteSets, TLC

VARIABLES users, calls, rooms, signaling, call_recordings, inbox, client,
          tasks, now, response

vars == <<users, calls, rooms, signaling, call_recordings, inbox, client,
          tasks, now, response>>

Users == {"alice", "bob"}

\* bounds of the exploration
MaxCalls == 2
MaxCandidates == 1
MaxInbox == 3
MaxTime == 4
MaxSignals == 3

\* the heartbeat period (30 s) is one tick of the clock; the staleness window
\* of the sweep (5 minutes) is a larger number of ticks
HeartbeatEvery == 1
StaleWindow == 2

maxReconnectAttempts == 5

friendUser(c) == IF c = "alice" THEN "bob" ELSE "alice"

\* text comparison of two usernames
UserRank(u) == IF u = "alice" THEN 1 ELSE 2
UserLess(a, b) == UserRank(a) < UserRank(b)

NonTerminal == {"calling", "ringing", "accepted", "connected"}
Terminal == {"declined", "busy", "missed", "ended"}

\* now is Date.now() in whole seconds; callStartTime = 0 is null.
\* recorders are the MediaRecorder objects of the page that still record or
\* have events to fire: ref marks the one held in this.mediaRecorder (kept
\* when inactive), call_id is the call it was started in, current tells that
\* its tracks belong to the streams the page holds now.
\* call_recordings holds the rows by their call_id and recording_status:
\* rows that agree in both are one element.

\* A recorder the page holds no reference to is followed while it has events
\* to fire or can still stop; one that records tracks nobody will stop is
\* not (it records on, unobserved).
Tracked(recs) ==
    {r \in recs : \/ r.ref
                  \/ r.state = "stopped"
                  \/ r.state = "recording" /\ r.current}

\* the RTCPeerConnection held in this.peerConnection; open = FALSE is null
NullPC == [open |-> FALSE, sig |-> "stable", local |-> "none",
           remote |-> "none", conn |-> "new", cands |-> 0, applied |-> 0]
NewPC == [NullPC EXCEPT !.open = TRUE]

InitClient == [callStatus |-> "idle", currentCallId |-> 0, currentRoomId |-> 0,
               isInitiator |-> FALSE, peerConnection |-> NullPC,
               localStream |-> FALSE, callStartTime |-> 0,
               recorders |-> {}, recordedChunks |-> FALSE,
               reconnectAttempts |-> 0, callOverlay |-> FALSE,
               incomingCallOverlay |-> FALSE, activeCallOverlay |-> FALSE,
               notification |-> "", pageOpen |-> TRUE,
               heartbeatInterval |-> 1 + HeartbeatEvery]

State == [users |-> users, calls |-> calls, rooms |-> rooms,
          signaling |-> signaling, call_recordings |-> call_recordings,
          inbox |-> inbox, client |-> client, tasks |-> tasks, now |-> now,
          response |-> response]

\* a step is taken only while no inbox grows beyond MaxInbox: notifications
\* are consumed before more of them are produced
Set(s) ==
    /\ \A u \in Users : Len(s.inbox[u]) <= MaxInbox
    /\ users' = s.users
    /\ calls' = s.calls
    /\ rooms' = s.rooms
    /\ signaling' = s.signaling
    /\ call_recordings' = s.call_recordings
    /\ inbox' = s.inbox
    /\ client' = s.client
    /\ tasks' = s.tasks
    /\ now' = s.now
    /\ response' = s.response

Task(op, arg) == [op |-> op, arg |-> arg]
Spawn(s, c, op, arg) == [s EXCEPT !.tasks[c] = @ \cup {Task(op, arg)}]
Drop(s, c, t) == [s EXCEPT !.tasks[c] = @ \ {t}]

\* postgres_changes notification to one subscriber; a page that is not open
\* has no subscription
Notify(s, u, e) ==
    IF s.client[u].pageOpen THEN [s EXCEPT !.inbox[u] = Append(@, e)] ELSE s
RECURSIVE NotifyAll(_, _, _)
NotifyAll(s, us, e) ==
    IF us = {} THEN s
    ELSE LET u == CHOOSE x \in us : TRUE
         IN NotifyAll(Notify(s, u, e), us \ {u}, e)

Event(kind, id, val) == [kind |-> kind, id |-> id, val |-> val]

----------------------------------------------------------------------------
\* relay helpers of the class

\* every write of the row sets last_seen to the present
updateUserStatus(s, c, isOnline, isBusy) ==
    [s EXCEPT !.users[c] = [is_online |-> isOnline, is_busy |-> isBusy,
                            last_seen |-> s.now]]

\* a sweep that does not look at last_seen
mark_inactive_users_offline_NoWindow(s) ==
    [s EXCEPT !.users = [u \in Users |->
        IF @[u].is_online
        THEN [@[u] EXCEPT !.is_online = FALSE] ELSE @[u]]]

\* mark_inactive_users_offline(): the sweep of the users table
mark_inactive_users_offline(s) ==
    [s EXCEPT !.users = [u \in Users |->
        IF @[u].last_seen < s.now - StaleWindow /\ @[u].is_online
        THEN [@[u] EXCEPT !.is_online = FALSE] ELSE @[u]]]

\* calls.update(...).eq('id', id): no row matches a null id; the UPDATE
\* subscription has no filter, so every client is notified
UpdateCallRow(s, id, status) ==
    IF id \in 1..Len(s.calls)
    THEN NotifyAll([s EXCEPT !.calls[id].call_status = status], Users,
                   Event("UPDATE", id, status))
    ELSE s

updateCallStatus(s, c, status) ==
    UpdateCallRow(s, s.client[c].currentCallId, status)

\* created_at DEFAULT NOW(): later than that of every row in the table
Now(rows) ==
    IF rows = {} THEN 1
    ELSE 1 + (CHOOSE n \in {r.created_at : r \in rows} :
                 \A r \in rows : r.created_at <= n)

sendSignal(s, c, type) ==
    LET row == [call_id |-> s.client[c].currentCallId, sender_username |-> c,
                receiver_username |-> friendUser(c), signal_type |-> type,
                created_at |-> Now(s.signaling)]
    IN Notify([s EXCEPT !.signaling = @ \cup {row}], friendUser(c),
              Event("SIGNAL", row.call_id, type))

checkFriendStatus(s, c) == s.users[friendUser(c)]

\* registerUser(): upsert of the own users row, online and not busy
registerUser(s, c) == updateUserStatus(s, c, TRUE, FALSE)

\* the text of the toast shown last
showNotification(s, c, message) ==
    [s EXCEPT !.client[c].notification = message]

\* get_or_create_room: the sorted pair, the SELECT (0 is NULL) and the
\* conditional INSERT; UNIQUE(user1, user2) rejects a second row of the pair
\* and the function then fails: the rpc returns no data (id 0)
SortedPair(user_a, user_b) ==
    IF UserLess(user_a, user_b) THEN <<user_a, user_b>> ELSE <<user_b, user_a>>

get_or_create_room_180(s, user_a, user_b) ==
    LET found == {i \in 1..Len(s.rooms) : s.rooms[i] = SortedPair(user_a, user_b)}
    IN IF found # {} THEN CHOOSE i \in found : TRUE ELSE 0

get_or_create_room_184(s, user_a, user_b, room_uuid) ==
    IF room_uuid # 0 THEN [st |-> s, id |-> room_uuid]
    ELSE IF \E i \in 1..Len(s.rooms) : s.rooms[i] = SortedPair(user_a, user_b)
    THEN [st |-> s, id |-> 0]
    ELSE [st |-> [s EXCEPT !.rooms = Append(@, SortedPair(user_a, user_b))],
          id |-> Len(s.rooms) + 1]

\* the function run without another transaction in between
get_or_create_room(s, user_a, user_b) ==
    get_or_create_room_184(s, user_a, user_b,
                           get_or_create_room_180(s, user_a, user_b))

\* .order("created_at", { ascending: true })
RECURSIVE OrderByCreatedAt(_)
OrderByCreatedAt(rows) ==
    IF rows = {} THEN <<>>
    ELSE LET r == CHOOSE x \in rows : \A y \in rows : x.created_at <= y.created_at
         IN <<r>> \o OrderByCreatedAt(rows \ {r})

\* get_signals action of the edge function
handleGetSignals(s, call_id, receiver_username) ==
    OrderByCreatedAt({r \in s.signaling : /\ r.call_id = call_id
                                          /\ r.receiver_username = receiver_username})

\* cleanup_signals that deletes a single row
handleCleanupSignals_OneRow(s, call_id) ==
    LET rows == {r \in s.signaling : r.call_id = call_id}
    IN IF rows = {} THEN s
       ELSE [s EXCEPT !.signaling = @ \ {CHOOSE r \in rows : TRUE}]

\* cleanup_signals action of the edge function: delete by call_id
handleCleanupSignals(s, call_id) ==
    [s EXCEPT !.signaling = {r \in @ : r.call_id # call_id}]

\* the last Response of the edge function: status, and the error or the
\* kind of the body
NoResponse == [status |-> 0, body |-> ""]
Response(status, body) == [status |-> status, body |-> body]

SignalTypes == {"offer", "answer", "ice-candidate"}
CallStatuses == {"calling", "ringing", "accepted", "declined", "ended",
                 "missed", "busy"}

\* create_signal: the insert is refused for a call_id that is no Call row
\* and for a signal_type outside the CHECK of the table
handleCreateSignal(s, data) ==
    IF data.call_id \in 1..Len(s.calls) /\ data.signal_type \in SignalTypes
    THEN LET row == [call_id |-> data.call_id,
                     sender_username |-> data.sender_username,
                     receiver_username |-> data.receiver_username,
                     signal_type |-> data.signal_type,
                     created_at |-> Now(s.signaling)]
         IN [Notify([s EXCEPT !.signaling = @ \cup {row}],
                    data.receiver_username,
                    Event("SIGNAL", row.call_id, row.signal_type))
               EXCEPT !.response = Response(200, "data")]
    ELSE [s EXCEPT !.response = Response(400, "error")]

\* update_call_status: the update is refused by the CHECK of the table and
\* .single() fails when no row has the id
handleUpdateCallStatus(s, data) ==
    IF data.call_id \in 1..Len(s.calls) /\ data.status \in CallStatuses
    THEN [UpdateCallRow(s, data.call_id, data.status)
             EXCEPT !.response = Response(200, "data")]
    ELSE [s EXCEPT !.response = Response(400, "error")]

EdgeActions == {"create_signal", "get_signals", "cleanup_signals",
                "update_call_status"}

\* serve() whose switch falls into cleanup_signals for an unknown action
serve_NoDefault(s, method, json, action, data) ==
    IF method = "OPTIONS" THEN [s EXCEPT !.response = Response(200, "ok")]
    ELSE IF ~json THEN [s EXCEPT !.response = Response(500, "error")]
    ELSE IF action = "create_signal" THEN handleCreateSignal(s, data)
    ELSE IF action = "get_signals"
    THEN [s EXCEPT !.response = Response(200, "data")]
    ELSE IF action = "update_call_status" THEN handleUpdateCallStatus(s, data)
    ELSE [handleCleanupSignals(s, data.call_id)
             EXCEPT !.response = Response(200, "success")]

\* serve(): json tells whether req.json() could read the body; an action
\* that the body does not have is the action "undefined"
serve(s, method, json, action, data) ==
    IF method = "OPTIONS" THEN [s EXCEPT !.response = Response(200, "ok")]
    ELSE IF ~json THEN [s EXCEPT !.response = Response(500, "error")]
    ELSE IF action = "create_signal" THEN handleCreateSignal(s, data)
    ELSE IF action = "get_signals"
    THEN [s EXCEPT !.response = Response(200, "data")]
    ELSE IF action = "cleanup_signals"
    THEN [handleCleanupSignals(s, data.call_id)
             EXCEPT !.response = Response(200, "success")]
    ELSE IF action = "update_call_status" THEN handleUpdateCallStatus(s, data)
    ELSE [s EXCEPT !.response = Response(400, "Invalid action")]

----------------------------------------------------------------------------
\* cleanup(): closes the transport, resets the session, releases busy; a
\* recorder stops by itself when all its tracks have ended

cleanup(s, c) ==
    updateUserStatus(
        [s EXCEPT !.client[c] = [@ EXCEPT
            !.peerConnection = NullPC,
            !.localStream = FALSE,
            !.callOverlay = FALSE,
            !.incomingCallOverlay = FALSE,
            !.activeCallOverlay = FALSE,
            !.callStatus = "idle",
            !.currentCallId = 0,
            !.currentRoomId = 0,
            !.isInitiator = FALSE,
            !.callStartTime = 0,
            !.recorders = {IF r.state = "recording" /\ r.current
                           THEN [r EXCEPT !.state = "stopped"] ELSE r : r \in @},
            !.recordedChunks = FALSE,
            !.reconnectAttempts = 0,
            !.heartbeatInterval = s.now + HeartbeatEvery]],
        c, TRUE, FALSE)

\* endCall() that records an unanswered call as missed
endCall_ByRowStatus(s, c) ==
    IF s.client[c].currentCallId # 0
    THEN Spawn(UpdateCallRow(s, s.client[c].currentCallId,
                   IF /\ s.client[c].currentCallId \in 1..Len(s.calls)
                      /\ s.calls[s.client[c].currentCallId].call_status
                             \in {"calling", "ringing"}
                   THEN "missed" ELSE "ended"),
               c, "endCall_893", 0)
    ELSE cleanup(s, c)

\* mediaRecorder.stop() if this.mediaRecorder is recording
stopRecording(s, c) ==
    [s EXCEPT !.client[c].recorders =
        {IF r.ref /\ r.state = "recording"
         THEN [r EXCEPT !.state = "stopped"] ELSE r : r \in @}]

\* calls.update({ call_status: 'ended', end_time, duration }).eq('id', id);
\* ended_at keeps the time of the first such write (a record of the
\* requests, no column of the table)
EndCallRow(s, id, duration) ==
    IF id \in 1..Len(s.calls)
    THEN NotifyAll([s EXCEPT !.calls[id].call_status = "ended",
                             !.calls[id].duration = duration,
                             !.calls[id].ended_at = IF @ = 0 THEN s.now ELSE @],
                   Users, Event("UPDATE", id, "ended"))
    ELSE s

\* endCall() up to its first await: the recorder is stopped, the Call row is
\* set to ended with the duration measured by this client
endCall(s, c) ==
    LET s0 == stopRecording(s, c)
        duration == IF s.client[c].callStartTime # 0
                    THEN s.now - s.client[c].callStartTime ELSE 0
    IN IF s.client[c].currentCallId # 0
       THEN Spawn(EndCallRow(s0, s.client[c].currentCallId, duration),
                  c, "endCall_893", 0)
       ELSE cleanup(s0, c)

\* endCall() after the update: purge by the call id held now; the Call row
\* remembers in purged that a client has requested the purge of its signals
\* (a record of the requests, no column of the table)
endCall_893(s, c) ==
    LET id == s.client[c].currentCallId
        s1 == [s EXCEPT !.signaling = {r \in @ : r.call_id = 0 \/ r.call_id # id}]
    IN Spawn(IF id \in 1..Len(s.calls)
             THEN [s1 EXCEPT !.calls[id].purged = TRUE]
             ELSE s1,
             c, "endCall_900", 0)

\* endCall() after the delete: cleanup
endCall_900(s, c) == cleanup(s, c)

----------------------------------------------------------------------------
\* what the caller of setupWebRTC() runs after it returns: parent = 1 is
\* acceptCall, which removes the incoming call overlay; 0 is initiateCall,
\* 2 and 3 are handleConnectionFailure

AfterSetup(s, c, parent) ==
    IF parent = 1
    THEN [s EXCEPT !.client[c].incomingCallOverlay = FALSE]
    ELSE s

\* setupWebRTC() whose catch block only reports the failure
setupWebRTC_474_NoEnd(s, c, parent, ok) ==
    IF ~ok
    THEN showNotification(s, c, "Failed to access microphone")
    ELSE LET s1 == [s EXCEPT !.client[c].localStream = TRUE,
                             !.client[c].peerConnection = NewPC,
                             !.client[c].recorders = Tracked(
                                 {[r EXCEPT !.current = FALSE] : r \in @})]
         IN IF s1.client[c].isInitiator
            THEN Spawn(s1, c, "setupWebRTC_526", parent)
            ELSE AfterSetup(s1, c, parent)

\* setupWebRTC() after getUserMedia: new transport object, offer if initiator
setupWebRTC_474(s, c, parent, ok) ==
    IF ~ok
    THEN endCall(showNotification(s, c, "Failed to access microphone"), c)
    ELSE LET s1 == [s EXCEPT !.client[c].localStream = TRUE,
                             !.client[c].peerConnection = NewPC,
                             !.client[c].recorders = Tracked(
                                 {[r EXCEPT !.current = FALSE] : r \in @})]
         IN IF s1.client[c].isInitiator
            THEN Spawn(s1, c, "setupWebRTC_526", parent)
            ELSE AfterSetup(s1, c, parent)

\* setupWebRTC() after createOffer: setLocalDescription(offer), send it
setupWebRTC_526(s, c, parent) ==
    LET pc == s.client[c].peerConnection
    IN IF ~pc.open \/ pc.sig = "have-remote-offer"
       THEN endCall(showNotification(s, c, "Failed to access microphone"), c)
       ELSE AfterSetup(
                sendSignal([s EXCEPT !.client[c].peerConnection =
                                [pc EXCEPT !.sig = "have-local-offer",
                                           !.local = "offer"]],
                           c, "offer"),
                c, parent)

setupWebRTC(s, c, parent) == Spawn(s, c, "setupWebRTC_474", parent)

----------------------------------------------------------------------------
\* initiateCall()

initiateCall(s, c) ==
    IF s.client[c].callStatus # "idle" THEN s
    ELSE LET friendStatus == checkFriendStatus(s, c)
         IN IF ~friendStatus.is_online
            THEN showNotification(s, c, "User is offline")
            ELSE IF friendStatus.is_busy
            THEN showNotification(s, c, "User is busy")
            ELSE Spawn(s, c, "initiateCall_418", 0)

initiateCall_418(s, c) ==
    Spawn(updateUserStatus(s, c, TRUE, TRUE), c, "initiateCall_421", 0)

\* get_or_create_room, then the insert of the Call row
initiateCall_421(s, c) ==
    LET r == get_or_create_room(s, c, friendUser(c))
        s1 == [r.st EXCEPT !.client[c].currentRoomId = r.id]
        row == [room_id |-> r.id, caller_username |-> c,
                receiver_username |-> friendUser(c), call_status |-> "calling",
                duration |-> 0, purged |-> FALSE, connected_at |-> 0,
                ended_at |-> 0, uploads |-> [u \in Users |-> 0],
                recordings |-> [u \in Users |-> 0]]
        id == Len(s1.calls) + 1
    IN Spawn(Notify([s1 EXCEPT !.calls = Append(@, row)], friendUser(c),
                    Event("INSERT", id, "calling")),
             c, "initiateCall_443", id)

\* get_or_create_room, then the insert of the Call row returns an error:
\* throw callError, caught at 461
initiateCall_461(s, c) ==
    LET r == get_or_create_room(s, c, friendUser(c))
        s1 == [r.st EXCEPT !.client[c].currentRoomId = r.id]
    IN endCall(showNotification(s1, c, "Failed to initiate call"), c)

initiateCall_443(s, c, id) ==
    setupWebRTC([s EXCEPT !.client[c].currentCallId = id,
                          !.client[c].isInitiator = TRUE,
                          !.client[c].callStatus = "calling",
                          !.client[c].callOverlay = TRUE],
                c, 0)

----------------------------------------------------------------------------
\* acceptCall(), declineCall()

acceptCall(s, c) ==
    Spawn(updateUserStatus(s, c, TRUE, TRUE), c, "acceptCall_633", 0)

acceptCall_633(s, c) ==
    Spawn(updateCallStatus(s, c, "accepted"), c, "acceptCall_634", 0)

acceptCall_634(s, c) ==
    setupWebRTC([s EXCEPT !.client[c].callStatus = "accepted"], c, 1)

declineCall(s, c) ==
    Spawn(updateCallStatus(s, c, "declined"), c, "declineCall_664", 0)

declineCall_664(s, c) == cleanup(s, c)

----------------------------------------------------------------------------
\* realtime handlers

handleIncomingCall(s, c, id) ==
    LET call == s.calls[id]
    IN IF call.caller_username = c \/ call.receiver_username # c THEN s
       ELSE LET s1 == [s EXCEPT !.client[c].currentCallId = id,
                                !.client[c].currentRoomId = call.room_id,
                                !.client[c].isInitiator = FALSE]
            IN IF s.client[c].callStatus # "idle"
               THEN updateCallStatus(s1, c, "busy")
               ELSE Spawn(updateCallStatus(
                              [s1 EXCEPT !.client[c].callStatus = "ringing"],
                              c, "ringing"),
                          c, "handleIncomingCall_602", 0)

handleIncomingCall_602(s, c) ==
    [s EXCEPT !.client[c].incomingCallOverlay = TRUE]

\* handleCallStatusUpdate() without the test of the call id
handleCallStatusUpdate_AnyId(s, c, id, call_status) ==
    IF call_status = "ringing" /\ s.client[c].isInitiator
    THEN [s EXCEPT !.client[c].callStatus = "ringing"]
    ELSE IF call_status = "accepted"
         THEN [s EXCEPT !.client[c].callStatus = "accepted"]
    ELSE IF call_status = "declined"
         THEN endCall(showNotification(s, c, "Call declined"), c)
    ELSE IF call_status = "busy"
         THEN endCall(showNotification(s, c, "User is busy"), c)
    ELSE IF call_status = "ended"
         THEN endCall(s, c)
    ELSE s

handleCallStatusUpdate(s, c, id, call_status) ==
    IF id # s.client[c].currentCallId THEN s
    ELSE IF call_status = "ringing" /\ s.client[c].isInitiator
         THEN [s EXCEPT !.client[c].callStatus = "ringing"]
    ELSE IF call_status = "accepted"
         THEN [s EXCEPT !.client[c].callStatus = "accepted"]
    ELSE IF call_status = "declined"
         THEN endCall(showNotification(s, c, "Call declined"), c)
    ELSE IF call_status = "busy"
         THEN endCall(showNotification(s, c, "User is busy"), c)
    ELSE IF call_status = "ended"
         THEN endCall(s, c)
    ELSE s

\* RTCPeerConnection.setRemoteDescription(offer); in have-local-offer the
\* browser either rolls the local offer back or rejects (rollback)
SetRemoteOffer(pc, rollback) ==
    IF pc.sig = "have-local-offer" /\ ~rollback THEN pc
    ELSE [pc EXCEPT !.sig = "have-remote-offer", !.remote = "offer",
                    !.local = IF pc.sig = "have-local-offer" THEN "none" ELSE @]

RemoteOfferOk(pc, rollback) ==
    pc.open /\ (pc.sig = "have-local-offer" => rollback)

\* the guards under which handleSignal() reaches setRemoteDescription(answer)
AnswerBranch(cl, call_id, signal_type) ==
    /\ call_id = cl.currentCallId
    /\ ~(signal_type = "offer" /\ ~cl.isInitiator)
    /\ signal_type = "answer"
    /\ cl.isInitiator

handleSignal(s, c, call_id, signal_type, rollback) ==
    LET pc == s.client[c].peerConnection
    IN IF call_id # s.client[c].currentCallId THEN s
       ELSE IF signal_type = "offer" /\ ~s.client[c].isInitiator
            THEN IF RemoteOfferOk(pc, rollback)
                 THEN Spawn([s EXCEPT !.client[c].peerConnection =
                                        SetRemoteOffer(pc, rollback)],
                            c, "handleSignal_566", 0)
                 ELSE s
       ELSE IF AnswerBranch(s.client[c], call_id, signal_type)
            THEN IF pc.open /\ pc.sig = "have-local-offer"
                 THEN [s EXCEPT !.client[c].peerConnection =
                          [pc EXCEPT !.sig = "stable", !.remote = "answer"]]
                 ELSE s
       ELSE IF signal_type = "ice-candidate"
            THEN IF pc.open /\ pc.remote # "none"
                 THEN [s EXCEPT !.client[c].peerConnection.applied = @ + 1]
                 ELSE s
       ELSE s

\* handleSignal() after setRemoteDescription(offer): createAnswer,
\* setLocalDescription(answer), send the answer
handleSignal_566(s, c) ==
    LET pc == s.client[c].peerConnection
    IN IF pc.open /\ pc.sig = "have-remote-offer"
       THEN sendSignal([s EXCEPT !.client[c].peerConnection =
                           [pc EXCEPT !.sig = "stable", !.local = "answer",
                                      !.conn = "new"]],
                       c, "answer")
       ELSE s

----------------------------------------------------------------------------
\* transport callbacks (onconnectionstatechange)

\* startCallRecording(): a new MediaRecorder on the streams held now takes
\* the place of this.mediaRecorder, and a Recording row is inserted
startCallRecording(s, c) ==
    LET id == s.client[c].currentCallId
        kept == Tracked({[r EXCEPT !.ref = FALSE] : r \in s.client[c].recorders})
        rec == [ref |-> TRUE, state |-> "recording", call_id |-> id,
                current |-> TRUE]
        s1 == IF id \in 1..Len(s.calls)
              THEN [s EXCEPT !.calls[id].recordings[c] =
                                 IF @ < 2 THEN @ + 1 ELSE @]
              ELSE s
    IN [s1 EXCEPT !.client[c].recorders = kept \cup {rec},
                  !.call_recordings =
                      @ \cup {[call_id |-> id, recording_status |-> "recording"]}]

\* connected_at keeps the time of the first connected report of the call (a
\* record of the events, no column of the table)
onCallConnected(s, c) ==
    LET id == s.client[c].currentCallId
        s1 == [s EXCEPT !.client[c].callStartTime = s.now,
                        !.client[c].callOverlay = FALSE,
                        !.client[c].activeCallOverlay = TRUE]
    IN startCallRecording(
           IF id \in 1..Len(s.calls) /\ s.calls[id].connected_at = 0
           THEN [s1 EXCEPT !.calls[id].connected_at = s.now]
           ELSE s1,
           c)

\* uploadRecording() up to the upload; uploads counts the attempts of c for
\* the call the recorder was started in (a record, no column of the table)
uploadRecording(s, c, call_id) ==
    IF ~s.client[c].recordedChunks THEN s
    ELSE Spawn(IF call_id \in 1..Len(s.calls)
               THEN [s EXCEPT !.calls[call_id].uploads[c] = @ + 1]
               ELSE s,
               c, "uploadRecording_787", 0)

\* call_recordings.update({ recording_status }).eq('call_id', id): no row
\* matches a null id
UpdateRecordings(s, id, status) ==
    [s EXCEPT !.call_recordings =
        {IF id # 0 /\ r.call_id = id
         THEN [r EXCEPT !.recording_status = status] ELSE r : r \in @}]

\* uploadRecording() after the upload: completed, or failed from the catch
uploadRecording_787(s, c, ok) ==
    UpdateRecordings(s, s.client[c].currentCallId,
                     IF ok THEN "completed" ELSE "failed")

\* handleConnectionFailure comparing with <= instead of <
handleConnectionFailure_OffByOne(s, c, from) ==
    IF s.client[c].reconnectAttempts <= maxReconnectAttempts
    THEN Spawn([s EXCEPT !.client[c].reconnectAttempts = @ + 1], c,
               "setupWebRTC_474", from)
    ELSE endCall(showNotification(s, c, "Connection failed"), c)

\* handleConnectionFailure that only reports the exhaustion
handleConnectionFailure_NoEnd(s, c, from) ==
    IF s.client[c].reconnectAttempts < maxReconnectAttempts
    THEN Spawn([s EXCEPT !.client[c].reconnectAttempts = @ + 1], c,
               "setupWebRTC_474", from)
    ELSE showNotification(s, c, "Connection failed")

\* from: 2 when reached through handleDisconnection, 3 from the failed state
handleConnectionFailure(s, c, from) ==
    IF s.client[c].reconnectAttempts < maxReconnectAttempts
    THEN setupWebRTC([s EXCEPT !.client[c].reconnectAttempts = @ + 1], c, from)
    ELSE endCall(showNotification(s, c, "Connection failed"), c)

handleDisconnection(s, c) ==
    IF s.client[c].callStatus = "accepted"
    THEN handleConnectionFailure(s, c, 2)
    ELSE s

\* offer and answer are both applied on this transport object
Negotiated(pc) ==
    /\ pc.open
    /\ pc.sig = "stable"
    /\ pc.local # "none"
    /\ pc.remote # "none"

startHeartbeat(s, c) ==
    updateUserStatus(s, c, TRUE, s.client[c].callStatus # "idle")

----------------------------------------------------------------------------
\* the state after both clients have run init()

Init ==
    /\ users = [u \in Users |-> [is_online |-> TRUE, is_busy |-> FALSE,
                                 last_seen |-> 1]]
    /\ calls = <<>>
    /\ rooms = <<>>
    /\ signaling = {}
    /\ call_recordings = {}
    /\ inbox = [u \in Users |-> <<>>]
    /\ client = [u \in Users |-> InitClient]
    /\ tasks = [u \in Users |-> {}]
    /\ now = 1
    /\ response = NoResponse

\* alice has run init(); bob has not opened the page yet: checkFriendStatus
\* finds no online row for him
InitOffline ==
    /\ users = [u \in Users |-> [is_online |-> (u = "alice"), is_busy |-> FALSE,
                                 last_seen |-> 1]]
    /\ calls = <<>>
    /\ rooms = <<>>
    /\ signaling = {}
    /\ call_recordings = {}
    /\ inbox = [u \in Users |-> <<>>]
    /\ client = [u \in Users |->
                    IF u = "alice" THEN InitClient
                    ELSE [InitClient EXCEPT !.pageOpen = FALSE,
                                            !.heartbeatInterval = 0]]
    /\ tasks = [u \in Users |-> {}]
    /\ now = 1
    /\ response = NoResponse

\* c opens the page: init() registers the user
PageLoad(c) ==
    /\ ~client[c].pageOpen
    /\ ~users[c].is_online
    /\ Set(registerUser([State EXCEPT !.client[c].pageOpen = TRUE,
                                      !.client[c].heartbeatInterval =
                                          now + HeartbeatEvery], c))

\* the page of c goes away in the middle of whatever it does: the
\* beforeunload handler runs cleanup(), whose users update may or may not
\* leave the browser (sent); a page that crashes or loses its network sends
\* nothing.  Its suspended operations and its subscriptions are gone.
PageClosed(c) ==
    /\ client[c].pageOpen
    /\ \E sent \in BOOLEAN :
          LET s1 == [State EXCEPT !.client[c] =
                                      [InitClient EXCEPT !.pageOpen = FALSE,
                                                         !.heartbeatInterval = 0],
                                  !.tasks[c] = {},
                                  !.inbox[c] = <<>>]
          IN Set(IF sent THEN updateUserStatus(s1, c, TRUE, FALSE) ELSE s1)

\* the scheduled sweep runs
MarkInactiveUsersOffline ==
    /\ \E u \in Users : /\ users[u].last_seen < now - StaleWindow
                         /\ users[u].is_online
    /\ Set(mark_inactive_users_offline(State))

\* a button is not pressed again while the method it started is in flight
InFlight(c, ops) == \E t \in tasks[c] : t.op \in ops
AnswerOps == {"acceptCall_633", "acceptCall_634", "declineCall_664",
              "setupWebRTC_474", "endCall_893", "endCall_900"}

PendingInserts ==
    Cardinality({<<u, t>> \in Users \X {Task("initiateCall_418", 0),
                                       Task("initiateCall_421", 0)} :
                    t \in tasks[u]})

\* every started operation has run to its end and every notification has
\* been handled
NothingInFlight == \A u \in Users : tasks[u] = {} /\ inbox[u] = <<>>

\* click on the call button
InitiateCallClick(c) ==
    /\ Len(calls) + PendingInserts < MaxCalls
    /\ client[c].callStatus = "idle"
    /\ Set(initiateCall(State, c))

\* the first click on the call button since both pages were loaded
FirstCallClick(c) ==
    /\ calls = <<>>
    /\ PendingInserts = 0
    /\ client[c].callStatus = "idle"
    /\ Set(initiateCall(State, c))

\* the accept / decline buttons of the incoming call overlay
AcceptCallClick(c) ==
    /\ client[c].incomingCallOverlay
    /\ ~InFlight(c, AnswerOps)
    /\ Set(acceptCall(State, c))

DeclineCallClick(c) ==
    /\ client[c].incomingCallOverlay
    /\ ~InFlight(c, AnswerOps)
    /\ Set(declineCall(State, c))

\* the hang-up button of the calling / active call overlay
EndCallClick(c) ==
    /\ client[c].callOverlay \/ client[c].activeCallOverlay
    /\ ~InFlight(c, {"endCall_893", "endCall_900"})
    /\ Set(endCall(State, c))

\* the heartbeat interval fires and is armed for the next period
HeartbeatTick(c) ==
    /\ Set(startHeartbeat([State EXCEPT !.client[c].heartbeatInterval =
                                            now + HeartbeatEvery], c))

\* onicecandidate of the current transport object
IceCandidate(c) ==
    /\ client[c].peerConnection.open
    /\ client[c].peerConnection.local # "none"
    /\ client[c].peerConnection.cands < MaxCandidates
    /\ Set(sendSignal([State EXCEPT !.client[c].peerConnection.cands = @ + 1],
                      c, "ice-candidate"))

TransportConnected(c) ==
    /\ Negotiated(client[c].peerConnection)
    /\ Negotiated(client[friendUser(c)].peerConnection)
    /\ client[c].peerConnection.conn \in {"new", "disconnected"}
    /\ Set(onCallConnected([State EXCEPT !.client[c].peerConnection.conn = "connected"], c))

TransportDisconnected(c) ==
    /\ client[c].peerConnection.open
    /\ client[c].peerConnection.conn = "connected"
    /\ Set(handleDisconnection([State EXCEPT !.client[c].peerConnection.conn = "disconnected"], c))

TransportFailed(c) ==
    /\ client[c].peerConnection.open
    /\ \/ client[c].peerConnection.conn = "disconnected"
       \/ client[c].peerConnection.conn = "new" /\ Negotiated(client[c].peerConnection)
    /\ Set(handleConnectionFailure([State EXCEPT !.client[c].peerConnection.conn = "failed"], c, 3))

\* a third registered user, whose page is not part of the model, calls c:
\* her initiateCall() inserts a room and a Call row with c as receiver
StrangerCalls(c) ==
    /\ Len(calls) + PendingInserts < MaxCalls
    /\ \A i \in 1..Len(calls) : calls[i].caller_username # "carol"
    /\ LET pair == <<c, "carol">>
           found == {i \in 1..Len(rooms) : rooms[i] = pair}
           s1 == IF found # {} THEN State
                 ELSE [State EXCEPT !.rooms = Append(@, pair)]
           room == IF found # {} THEN CHOOSE i \in found : TRUE
                   ELSE Len(rooms) + 1
           row == [room_id |-> room, caller_username |-> "carol",
                   receiver_username |-> c, call_status |-> "calling",
                   duration |-> 0, purged |-> FALSE, connected_at |-> 0,
                   ended_at |-> 0, uploads |-> [u \in Users |-> 0],
                   recordings |-> [u \in Users |-> 0]]
       IN Set(Notify([s1 EXCEPT !.calls = Append(@, row)], c,
                     Event("INSERT", Len(calls) + 1, "calling")))

\* her setupWebRTC() sends the offer of that call to c
StrangerOffers(c) ==
    \E i \in 1..Len(calls) :
        /\ calls[i].caller_username = "carol"
        /\ calls[i].receiver_username = c
        /\ \A r \in signaling : r.sender_username # "carol"
        /\ LET row == [call_id |-> i, sender_username |-> "carol",
                       receiver_username |-> c, signal_type |-> "offer",
                       created_at |-> Now(signaling)]
           IN Set(Notify([State EXCEPT !.signaling = @ \cup {row}], c,
                         Event("SIGNAL", i, "offer")))

\* she hangs up: her endCall() writes ended to the Call row
StrangerEnds(c) ==
    \E i \in 1..Len(calls) :
        /\ calls[i].caller_username = "carol"
        /\ calls[i].receiver_username = c
        /\ calls[i].call_status # "ended"
        /\ Set(EndCallRow(State, i, 0))

\* a request to the edge function
RequestActions == EdgeActions \cup {"delete_call", "undefined"}
RequestData ==
    {[call_id |-> id, sender_username |-> u,
      receiver_username |-> CHOOSE v \in Users : v # u,
      signal_type |-> IF ok THEN "offer" ELSE "sdp",
      status |-> IF ok THEN "ended" ELSE "connected"] :
        id \in 1..MaxCalls, u \in Users, ok \in BOOLEAN}

\* a preflight, a body that is no JSON, and every action with every data
Requests ==
    {[method |-> "OPTIONS", json |-> FALSE, action |-> "undefined"],
     [method |-> "POST", json |-> FALSE, action |-> "undefined"]}
    \cup [method : {"POST"}, json : {TRUE}, action : RequestActions]

EdgeRequestOf(method, json, action, data) ==
    /\ action = "create_signal" => Cardinality(signaling) < MaxSignals
    /\ Set(serve(State, method, json, action, data))

EdgeRequest ==
    \E req \in Requests, data \in RequestData :
        EdgeRequestOf(req.method, req.json, req.action, data)

\* a request to the edge function with action cleanup_signals
CleanupSignalsRequest ==
    \E call_id \in 1..Len(calls) : Set(handleCleanupSignals(State, call_id))

Popped(c) == [State EXCEPT !.inbox[c] = Tail(@)]

DeliverIncomingCall(c) ==
    /\ inbox[c] # <<>>
    /\ Head(inbox[c]).kind = "INSERT"
    /\ Set(handleIncomingCall(Popped(c), c, Head(inbox[c]).id))

DeliverCallUpdate(c) ==
    /\ inbox[c] # <<>>
    /\ Head(inbox[c]).kind = "UPDATE"
    /\ Set(handleCallStatusUpdate(Popped(c), c, Head(inbox[c]).id, Head(inbox[c]).val))

DeliverSignal(c) ==
    /\ inbox[c] # <<>>
    /\ Head(inbox[c]).kind = "SIGNAL"
    /\ \E rollback \in BOOLEAN :
          Set(handleSignal(Popped(c), c, Head(inbox[c]).id, Head(inbox[c]).val, rollback))

Resume_initiateCall_418(c) ==
    \E t \in tasks[c] : t.op = "initiateCall_418"
        /\ Set(initiateCall_418(Drop(State, c, t), c))

Resume_initiateCall_421(c) ==
    \E t \in tasks[c] : t.op = "initiateCall_421"
        /\ Set(initiateCall_421(Drop(State, c, t), c))

\* the insert of the Call row fails
Resume_initiateCall_461(c) ==
    \E t \in tasks[c] : t.op = "initiateCall_421"
        /\ Set(initiateCall_461(Drop(State, c, t), c))

Resume_initiateCall_443(c) ==
    \E t \in tasks[c] : t.op = "initiateCall_443"
        /\ Set(initiateCall_443(Drop(State, c, t), c, t.arg))

Resume_setupWebRTC_474(c) ==
    \E t \in tasks[c] : t.op = "setupWebRTC_474"
        /\ Set(setupWebRTC_474(Drop(State, c, t), c, t.arg, TRUE))

\* getUserMedia rejects
Resume_setupWebRTC_531(c) ==
    \E t \in tasks[c] : t.op = "setupWebRTC_474"
        /\ Set(setupWebRTC_474(Drop(State, c, t), c, t.arg, FALSE))

Resume_setupWebRTC_526(c) ==
    \E t \in tasks[c] : t.op = "setupWebRTC_526"
        /\ Set(setupWebRTC_526(Drop(State, c, t), c, t.arg))

Resume_acceptCall_633(c) ==
    \E t \in tasks[c] : t.op = "acceptCall_633"
        /\ Set(acceptCall_633(Drop(State, c, t), c))

Resume_acceptCall_634(c) ==
    \E t \in tasks[c] : t.op = "acceptCall_634"
        /\ Set(acceptCall_634(Drop(State, c, t), c))

Resume_declineCall_664(c) ==
    \E t \in tasks[c] : t.op = "declineCall_664"
        /\ Set(declineCall_664(Drop(State, c, t), c))

Resume_handleIncomingCall_602(c) ==
    \E t \in tasks[c] : t.op = "handleIncomingCall_602"
        /\ Set(handleIncomingCall_602(Drop(State, c, t), c))

Resume_handleSignal_566(c) ==
    \E t \in tasks[c] : t.op = "handleSignal_566"
        /\ Set(handleSignal_566(Drop(State, c, t), c))

Resume_endCall_893(c) ==
    \E t \in tasks[c] : t.op = "endCall_893"
        /\ Set(endCall_893(Drop(State, c, t), c))

\* dataavailable and stop events of a recorder that has been stopped
RecorderStopped(c) ==
    \E r \in client[c].recorders : \E data \in BOOLEAN :
        /\ r.state = "stopped"
        /\ Set(uploadRecording(
                  [State EXCEPT
                      !.client[c].recorders =
                          (@ \ {r}) \cup (IF r.ref
                                         THEN {[r EXCEPT !.state = "inactive"]}
                                         ELSE {}),
                      !.client[c].recordedChunks = @ \/ data],
                  c, r.call_id))

Resume_uploadRecording_787(c) ==
    \E t \in tasks[c] : t.op = "uploadRecording_787"
        /\ Set(uploadRecording_787(Drop(State, c, t), c, TRUE))

\* the upload fails
Resume_uploadRecording_801(c) ==
    \E t \in tasks[c] : t.op = "uploadRecording_787"
        /\ Set(uploadRecording_787(Drop(State, c, t), c, FALSE))

\* rpc('get_or_create_room', ...) of c with the two usernames in either
\* order: the function runs up to its SELECT
RoomRpc(c) ==
    \E user_a \in Users :
        Set(Spawn(State, c, "get_or_create_room_184",
                  <<user_a, friendUser(user_a),
                    get_or_create_room_180(State, user_a, friendUser(user_a))>>))

\* the function runs to its end and the rpc returns: currentRoomId = roomData
Resume_get_or_create_room_184(c) ==
    \E t \in tasks[c] : t.op = "get_or_create_room_184"
        /\ LET r == get_or_create_room_184(Drop(State, c, t),
                                           t.arg[1], t.arg[2], t.arg[3])
           IN Set([r.st EXCEPT !.client[c].currentRoomId = r.id])

\* a second passes
Tick ==
    /\ now < MaxTime
    /\ Set([State EXCEPT !.now = @ + 1])

\* a tick of the clock where the timers are watched: an interval that is due
\* fires before more time passes
TimerTick ==
    /\ \A c \in Users : client[c].heartbeatInterval # now
    /\ Tick

Resume_endCall_900(c) ==
    \E t \in tasks[c] : t.op = "endCall_900"
        /\ Set(endCall_900(Drop(State, c, t), c))

\* every event of both clients
Next ==
    \/ \E c \in Users : InitiateCallClick(c)
    \/ \E c \in Users : AcceptCallClick(c)
    \/ \E c \in Users : DeclineCallClick(c)
    \/ \E c \in Users : EndCallClick(c)
    \/ \E c \in Users : HeartbeatTick(c)
    \/ \E c \in Users : IceCandidate(c)
    \/ \E c \in Users : TransportConnected(c)
    \/ \E c \in Users : TransportDisconnected(c)
    \/ \E c \in Users : TransportFailed(c)
    \/ \E c \in Users : DeliverIncomingCall(c)
    \/ \E c \in Users : DeliverCallUpdate(c)
    \/ \E c \in Users : DeliverSignal(c)
    \/ \E c \in Users : Resume_initiateCall_418(c)
    \/ \E c \in Users : Resume_initiateCall_421(c)
    \/ \E c \in Users : Resume_initiateCall_461(c)
    \/ \E c \in Users : Resume_initiateCall_443(c)
    \/ \E c \in Users : Resume_setupWebRTC_474(c)
    \/ \E c \in Users : Resume_setupWebRTC_531(c)
    \/ \E c \in Users : Resume_setupWebRTC_526(c)
    \/ \E c \in Users : Resume_acceptCall_633(c)
    \/ \E c \in Users : Resume_acceptCall_634(c)
    \/ \E c \in Users : Resume_declineCall_664(c)
    \/ \E c \in Users : Resume_handleIncomingCall_602(c)
    \/ \E c \in Users : Resume_handleSignal_566(c)
    \/ \E c \in Users : Resume_endCall_893(c)
    \/ \E c \in Users : Resume_endCall_900(c)
    \/ \E c \in Users : RecorderStopped(c)
    \/ \E c \in Users : Resume_uploadRecording_787(c)
    \/ \E c \in Users : Resume_uploadRecording_801(c)
    \/ \E c \in Users : RoomRpc(c)
    \/ \E c \in Users : Resume_get_or_create_room_184(c)
    \/ \E c \in Users : PageLoad(c)
    \/ \E c \in Users : PageClosed(c)
    \/ Tick
    \/ MarkInactiveUsersOffline
    \/ \E c \in Users : StrangerCalls(c)
    \/ \E c \in Users : StrangerOffers(c)
    \/ \E c \in Users : StrangerEnds(c)
    \/ EdgeRequest
    \/ CleanupSignalsRequest

Spec == Init /\ [][Next]_vars

\* one call from alice to bob: ring, accept or decline, hang up, heartbeats
NextCall ==
    \/ FirstCallClick("alice")
    \/ \E c \in Users : AcceptCallClick(c)
    \/ \E c \in Users : DeclineCallClick(c)
    \/ \E c \in Users : EndCallClick(c)
    \/ \E c \in Users : HeartbeatTick(c)
    \/ \E c \in Users : TransportConnected(c)
    \/ \E c \in Users : DeliverIncomingCall(c)
    \/ \E c \in Users : DeliverCallUpdate(c)
    \/ \E c \in Users : DeliverSignal(c)
    \/ \E c \in Users : Resume_initiateCall_418(c)
    \/ \E c \in Users : Resume_initiateCall_421(c)
    \/ \E c \in Users : Resume_initiateCall_443(c)
    \/ \E c \in Users : Resume_setupWebRTC_474(c)
    \/ \E c \in Users : Resume_setupWebRTC_526(c)
    \/ \E c \in Users : Resume_handleIncomingCall_602(c)
    \/ \E c \in Users : Resume_acceptCall_633(c)
    \/ \E c \in Users : Resume_acceptCall_634(c)
    \/ \E c \in Users : Resume_handleSignal_566(c)
    \/ \E c \in Users : Resume_declineCall_664(c)
    \/ \E c \in Users : Resume_endCall_893(c)
    \/ \E c \in Users : Resume_endCall_900(c)

SpecCall == Init /\ [][NextCall]_vars

\* both users may press the call button, up to MaxCalls calls
NextGlare ==
    \/ \E c \in Users : InitiateCallClick(c)
    \/ \E c \in Users : DeliverIncomingCall(c)
    \/ \E c \in Users : DeliverCallUpdate(c)
    \/ \E c \in Users : DeliverSignal(c)
    \/ \E c \in Users : Resume_initiateCall_418(c)
    \/ \E c \in Users : Resume_initiateCall_421(c)
    \/ \E c \in Users : Resume_initiateCall_443(c)
    \/ \E c \in Users : Resume_setupWebRTC_474(c)
    \/ \E c \in Users : Resume_setupWebRTC_526(c)
    \/ \E c \in Users : Resume_handleIncomingCall_602(c)
    \/ \E c \in Users : Resume_endCall_893(c)
    \/ \E c \in Users : Resume_endCall_900(c)

SpecGlare == Init /\ [][NextGlare]_vars

\* one call from alice that bob accepts: negotiation and candidates
NextMedia ==
    \/ FirstCallClick("alice")
    \/ \E c \in Users : AcceptCallClick(c)
    \/ \E c \in Users : IceCandidate(c)
    \/ \E c \in Users : TransportConnected(c)
    \/ \E c \in Users : DeliverIncomingCall(c)
    \/ \E c \in Users : DeliverCallUpdate(c)
    \/ \E c \in Users : DeliverSignal(c)
    \/ \E c \in Users : Resume_initiateCall_418(c)
    \/ \E c \in Users : Resume_initiateCall_421(c)
    \/ \E c \in Users : Resume_initiateCall_443(c)
    \/ \E c \in Users : Resume_setupWebRTC_474(c)
    \/ \E c \in Users : Resume_setupWebRTC_526(c)
    \/ \E c \in Users : Resume_handleIncomingCall_602(c)
    \/ \E c \in Users : Resume_acceptCall_633(c)
    \/ \E c \in Users : Resume_acceptCall_634(c)
    \/ \E c \in Users : Resume_handleSignal_566(c)

SpecMedia == Init /\ [][NextMedia]_vars

\* one accepted call from alice with transport disconnections and failures;
\* the faults strike between negotiations, while nothing is in flight
NextReconn ==
    \/ FirstCallClick("alice")
    \/ \E c \in Users : AcceptCallClick(c)
    \/ \E c \in Users : TransportConnected(c)
    \/ \E c \in Users : /\ NothingInFlight
                         /\ TransportDisconnected(c)
    \/ \E c \in Users : /\ NothingInFlight
                         /\ TransportFailed(c)
    \/ \E c \in Users : DeliverIncomingCall(c)
    \/ \E c \in Users : DeliverCallUpdate(c)
    \/ \E c \in Users : DeliverSignal(c)
    \/ \E c \in Users : Resume_initiateCall_418(c)
    \/ \E c \in Users : Resume_initiateCall_421(c)
    \/ \E c \in Users : Resume_initiateCall_443(c)
    \/ \E c \in Users : Resume_setupWebRTC_474(c)
    \/ \E c \in Users : Resume_setupWebRTC_526(c)
    \/ \E c \in Users : Resume_handleIncomingCall_602(c)
    \/ \E c \in Users : Resume_acceptCall_633(c)
    \/ \E c \in Users : Resume_acceptCall_634(c)
    \/ \E c \in Users : Resume_handleSignal_566(c)
    \/ \E c \in Users : Resume_endCall_893(c)
    \/ \E c \in Users : Resume_endCall_900(c)

SpecReconn == Init /\ [][NextReconn]_vars

\* one accepted call from alice in which the initiator's transport keeps
\* disconnecting and failing until the attempts are used up
NextExhaust ==
    \/ FirstCallClick("alice")
    \/ \E c \in Users : AcceptCallClick(c)
    \/ \E c \in Users : TransportConnected(c)
    \/ NothingInFlight /\ TransportDisconnected("alice")
    \/ NothingInFlight /\ TransportFailed("alice")
    \/ \E c \in Users : DeliverIncomingCall(c)
    \/ \E c \in Users : DeliverCallUpdate(c)
    \/ \E c \in Users : DeliverSignal(c)
    \/ \E c \in Users : Resume_initiateCall_418(c)
    \/ \E c \in Users : Resume_initiateCall_421(c)
    \/ \E c \in Users : Resume_initiateCall_443(c)
    \/ \E c \in Users : Resume_setupWebRTC_474(c)
    \/ \E c \in Users : Resume_setupWebRTC_526(c)
    \/ \E c \in Users : Resume_handleIncomingCall_602(c)
    \/ \E c \in Users : Resume_acceptCall_633(c)
    \/ \E c \in Users : Resume_acceptCall_634(c)
    \/ \E c \in Users : Resume_handleSignal_566(c)
    \/ \E c \in Users : Resume_endCall_893(c)
    \/ \E c \in Users : Resume_endCall_900(c)

\* the relay answers the delete request of endCall(): the awaited promise
\* settles and the rest of endCall() runs
SpecExhaust ==
    /\ Init /\ [][NextExhaust]_vars
    /\ WF_vars(Resume_endCall_893("alice"))
    /\ WF_vars(Resume_endCall_893("bob"))
    /\ WF_vars(Resume_endCall_900("alice"))
    /\ WF_vars(Resume_endCall_900("bob"))

\* one accepted call from alice in which the transport of one side reports
\* disconnected (and never failed)
NextDisconnect ==
    \/ FirstCallClick("alice")
    \/ \E c \in Users : AcceptCallClick(c)
    \/ \E c \in Users : TransportConnected(c)
    \/ \E c \in Users : /\ NothingInFlight
                         /\ TransportDisconnected(c)
    \/ \E c \in Users : DeliverIncomingCall(c)
    \/ \E c \in Users : DeliverCallUpdate(c)
    \/ \E c \in Users : DeliverSignal(c)
    \/ \E c \in Users : Resume_initiateCall_418(c)
    \/ \E c \in Users : Resume_initiateCall_421(c)
    \/ \E c \in Users : Resume_initiateCall_443(c)
    \/ \E c \in Users : Resume_setupWebRTC_474(c)
    \/ \E c \in Users : Resume_setupWebRTC_526(c)
    \/ \E c \in Users : Resume_handleIncomingCall_602(c)
    \/ \E c \in Users : Resume_acceptCall_633(c)
    \/ \E c \in Users : Resume_acceptCall_634(c)
    \/ \E c \in Users : Resume_handleSignal_566(c)
    \/ \E c \in Users : Resume_endCall_893(c)
    \/ \E c \in Users : Resume_endCall_900(c)

SpecDisconnect == Init /\ [][NextDisconnect]_vars

\* one call from alice that nobody answers: no accept, decline or hang-up;
\* whatever the pages and the relay can do is eventually done
NextRing ==
    \/ FirstCallClick("alice")
    \/ \E c \in Users : HeartbeatTick(c)
    \/ \E c \in Users : IceCandidate(c)
    \/ \E c \in Users : DeliverIncomingCall(c)
    \/ \E c \in Users : DeliverCallUpdate(c)
    \/ \E c \in Users : DeliverSignal(c)
    \/ \E c \in Users : Resume_initiateCall_418(c)
    \/ \E c \in Users : Resume_initiateCall_421(c)
    \/ \E c \in Users : Resume_initiateCall_443(c)
    \/ \E c \in Users : Resume_setupWebRTC_474(c)
    \/ \E c \in Users : Resume_setupWebRTC_526(c)
    \/ \E c \in Users : Resume_handleIncomingCall_602(c)

SpecRing == Init /\ [][NextRing]_vars /\ WF_vars(NextRing)

\* alice is on the page and calls; bob opens the page at some moment, and
\* declines a call that reaches him
NextOffline ==
    \/ FirstCallClick("alice")
    \/ \E c \in Users : PageLoad(c)
    \/ \E c \in Users : users[c].is_online /\ HeartbeatTick(c)
    \/ \E c \in Users : DeclineCallClick(c)
    \/ \E c \in Users : DeliverIncomingCall(c)
    \/ \E c \in Users : DeliverCallUpdate(c)
    \/ \E c \in Users : DeliverSignal(c)
    \/ \E c \in Users : Resume_initiateCall_418(c)
    \/ \E c \in Users : Resume_initiateCall_421(c)
    \/ \E c \in Users : Resume_initiateCall_443(c)
    \/ \E c \in Users : Resume_setupWebRTC_474(c)
    \/ \E c \in Users : Resume_setupWebRTC_526(c)
    \/ \E c \in Users : Resume_handleIncomingCall_602(c)
    \/ \E c \in Users : Resume_declineCall_664(c)
    \/ \E c \in Users : Resume_endCall_893(c)
    \/ \E c \in Users : Resume_endCall_900(c)

SpecOffline == InitOffline /\ [][NextOffline]_vars

\* one call from alice that bob accepts, with candidates, hang-up and
\* cleanup_signals requests to the edge function
NextPurge ==
    \/ FirstCallClick("alice")
    \/ \E c \in Users : AcceptCallClick(c)
    \/ \E c \in Users : IceCandidate(c)
    \/ \E c \in Users : NothingInFlight /\ EndCallClick(c)
    \/ CleanupSignalsRequest
    \/ \E c \in Users : DeliverIncomingCall(c)
    \/ \E c \in Users : DeliverCallUpdate(c)
    \/ \E c \in Users : DeliverSignal(c)
    \/ \E c \in Users : Resume_initiateCall_418(c)
    \/ \E c \in Users : Resume_initiateCall_421(c)
    \/ \E c \in Users : Resume_initiateCall_443(c)
    \/ \E c \in Users : Resume_setupWebRTC_474(c)
    \/ \E c \in Users : Resume_setupWebRTC_526(c)
    \/ \E c \in Users : Resume_handleIncomingCall_602(c)
    \/ \E c \in Users : Resume_acceptCall_633(c)
    \/ \E c \in Users : Resume_acceptCall_634(c)
    \/ \E c \in Users : Resume_handleSignal_566(c)
    \/ \E c \in Users : Resume_endCall_893(c)
    \/ \E c \in Users : Resume_endCall_900(c)

SpecPurge == Init /\ [][NextPurge]_vars

\* one call from alice that bob accepts and that is hung up: recorders and
\* uploads; whatever the pages, the browser and the relay can do is
\* eventually done
NextRecording ==
    \/ FirstCallClick("alice")
    \/ \E c \in Users : AcceptCallClick(c)
    \/ \E c \in Users : NothingInFlight /\ EndCallClick(c)
    \/ \E c \in Users : TransportConnected(c)
    \/ \E c \in Users : RecorderStopped(c)
    \/ \E c \in Users : DeliverIncomingCall(c)
    \/ \E c \in Users : DeliverCallUpdate(c)
    \/ \E c \in Users : DeliverSignal(c)
    \/ \E c \in Users : Resume_initiateCall_418(c)
    \/ \E c \in Users : Resume_initiateCall_421(c)
    \/ \E c \in Users : Resume_initiateCall_443(c)
    \/ \E c \in Users : Resume_setupWebRTC_474(c)
    \/ \E c \in Users : Resume_setupWebRTC_526(c)
    \/ \E c \in Users : Resume_handleIncomingCall_602(c)
    \/ \E c \in Users : Resume_acceptCall_633(c)
    \/ \E c \in Users : Resume_acceptCall_634(c)
    \/ \E c \in Users : Resume_handleSignal_566(c)
    \/ \E c \in Users : Resume_endCall_893(c)
    \/ \E c \in Users : Resume_endCall_900(c)
    \/ \E c \in Users : Resume_uploadRecording_787(c)
    \/ \E c \in Users : Resume_uploadRecording_801(c)

SpecRecording == Init /\ [][NextRecording]_vars /\ WF_vars(NextRecording)

\* the recording scenario with disconnected reports of the initiator's
\* transport, followed by a recovery or by one reconnection
NextRerecord ==
    \/ NextRecording
    \/ /\ NothingInFlight
       /\ client["alice"].reconnectAttempts = 0
       /\ TransportDisconnected("alice")

SpecRerecord == Init /\ [][NextRerecord]_vars

\* both pages call get_or_create_room, any number of times
NextRooms ==
    \/ \E c \in Users : RoomRpc(c)
    \/ \E c \in Users : Resume_get_or_create_room_184(c)

SpecRooms == Init /\ [][NextRooms]_vars

\* one call from alice that bob may accept; a page may go away at any
\* moment, its users row then ages and the sweep runs
NextSweep ==
    \/ client["alice"].pageOpen /\ FirstCallClick("alice")
    \/ \E c \in Users : client[c].pageOpen /\ AcceptCallClick(c)
    \/ \E c \in Users : /\ client[c].pageOpen
                         /\ NothingInFlight
                         /\ EndCallClick(c)
    \/ \E c \in Users : /\ client[c].pageOpen
                         /\ client[c].heartbeatInterval = now
                         /\ HeartbeatTick(c)
    \/ PageClosed("bob")
    \/ NothingInFlight /\ TimerTick
    \/ MarkInactiveUsersOffline
    \/ \E c \in Users : DeliverIncomingCall(c)
    \/ \E c \in Users : DeliverCallUpdate(c)
    \/ \E c \in Users : DeliverSignal(c)
    \/ \E c \in Users : Resume_initiateCall_418(c)
    \/ \E c \in Users : Resume_initiateCall_421(c)
    \/ \E c \in Users : Resume_initiateCall_443(c)
    \/ \E c \in Users : Resume_setupWebRTC_474(c)
    \/ \E c \in Users : Resume_setupWebRTC_526(c)
    \/ \E c \in Users : Resume_handleIncomingCall_602(c)
    \/ \E c \in Users : Resume_acceptCall_633(c)
    \/ \E c \in Users : Resume_acceptCall_634(c)
    \/ \E c \in Users : Resume_handleSignal_566(c)
    \/ \E c \in Users : Resume_endCall_893(c)
    \/ \E c \in Users : Resume_endCall_900(c)

SpecSweep == Init /\ [][NextSweep]_vars

\* one call from alice that bob accepts, that connects and is hung up, while
\* the seconds pass
NextDuration ==
    \/ FirstCallClick("alice")
    \/ \E c \in Users : AcceptCallClick(c)
    \/ \E c \in Users : NothingInFlight /\ EndCallClick(c)
    \/ \E c \in Users : TransportConnected(c)
    \/ Tick
    \/ \E c \in Users : DeliverIncomingCall(c)
    \/ \E c \in Users : DeliverCallUpdate(c)
    \/ \E c \in Users : DeliverSignal(c)
    \/ \E c \in Users : Resume_initiateCall_418(c)
    \/ \E c \in Users : Resume_initiateCall_421(c)
    \/ \E c \in Users : Resume_initiateCall_443(c)
    \/ \E c \in Users : Resume_setupWebRTC_474(c)
    \/ \E c \in Users : Resume_setupWebRTC_526(c)
    \/ \E c \in Users : Resume_handleIncomingCall_602(c)
    \/ \E c \in Users : Resume_acceptCall_633(c)
    \/ \E c \in Users : Resume_acceptCall_634(c)
    \/ \E c \in Users : Resume_handleSignal_566(c)
    \/ \E c \in Users : Resume_endCall_893(c)
    \/ \E c \in Users : Resume_endCall_900(c)

SpecDuration == Init /\ [][NextDuration]_vars

\* one call from alice that bob may accept, where the microphone may be
\* refused on either side and the insert of the Call row may fail; the relay
\* answers endCall's requests
NextFailure ==
    \/ FirstCallClick("alice")
    \/ \E c \in Users : AcceptCallClick(c)
    \/ \E c \in Users : DeliverIncomingCall(c)
    \/ \E c \in Users : DeliverCallUpdate(c)
    \/ \E c \in Users : DeliverSignal(c)
    \/ \E c \in Users : Resume_initiateCall_418(c)
    \/ \E c \in Users : Resume_initiateCall_421(c)
    \/ \E c \in Users : Resume_initiateCall_461(c)
    \/ \E c \in Users : Resume_initiateCall_443(c)
    \/ \E c \in Users : Resume_setupWebRTC_474(c)
    \/ \E c \in Users : Resume_setupWebRTC_531(c)
    \/ \E c \in Users : Resume_setupWebRTC_526(c)
    \/ \E c \in Users : Resume_handleIncomingCall_602(c)
    \/ \E c \in Users : Resume_acceptCall_633(c)
    \/ \E c \in Users : Resume_acceptCall_634(c)
    \/ \E c \in Users : Resume_handleSignal_566(c)
    \/ \E c \in Users : Resume_endCall_893(c)
    \/ \E c \in Users : Resume_endCall_900(c)

SpecFailure ==
    /\ Init /\ [][NextFailure]_vars
    /\ WF_vars(Resume_endCall_893("alice"))
    /\ WF_vars(Resume_endCall_893("bob"))
    /\ WF_vars(Resume_endCall_900("alice"))
    /\ WF_vars(Resume_endCall_900("bob"))

\* an accepted call whose initiator's transport reports disconnected and then
\* failed, at any moment, also while an earlier setupWebRTC run is under way
NextOverlap ==
    \/ FirstCallClick("alice")
    \/ \E c \in Users : AcceptCallClick(c)
    \/ \E c \in Users : TransportConnected(c)
    \/ \E c \in Users : NothingInFlight /\ EndCallClick(c)
    \/ client["alice"].reconnectAttempts = 0 /\ TransportDisconnected("alice")
    \/ client["alice"].reconnectAttempts = 1 /\ TransportFailed("alice")
    \/ \E c \in Users : DeliverIncomingCall(c)
    \/ \E c \in Users : DeliverCallUpdate(c)
    \/ \E c \in Users : DeliverSignal(c)
    \/ \E c \in Users : Resume_initiateCall_418(c)
    \/ \E c \in Users : Resume_initiateCall_421(c)
    \/ \E c \in Users : Resume_initiateCall_443(c)
    \/ \E c \in Users : Resume_setupWebRTC_474(c)
    \/ \E c \in Users : Resume_setupWebRTC_526(c)
    \/ \E c \in Users : Resume_handleIncomingCall_602(c)
    \/ \E c \in Users : Resume_acceptCall_633(c)
    \/ \E c \in Users : Resume_acceptCall_634(c)
    \/ \E c \in Users : Resume_handleSignal_566(c)
    \/ \E c \in Users : Resume_endCall_893(c)
    \/ \E c \in Users : Resume_endCall_900(c)

SpecOverlap == Init /\ [][NextOverlap]_vars

\* one call from alice that bob declines; notifications are delivered and
\* the relay answers every request
NextDecline ==
    \/ FirstCallClick("alice")
    \/ \E c \in Users : DeclineCallClick(c)
    \/ \E c \in Users : DeliverIncomingCall(c)
    \/ \E c \in Users : DeliverCallUpdate(c)
    \/ \E c \in Users : DeliverSignal(c)
    \/ \E c \in Users : Resume_initiateCall_418(c)
    \/ \E c \in Users : Resume_initiateCall_421(c)
    \/ \E c \in Users : Resume_initiateCall_443(c)
    \/ \E c \in Users : Resume_setupWebRTC_474(c)
    \/ \E c \in Users : Resume_setupWebRTC_526(c)
    \/ \E c \in Users : Resume_handleIncomingCall_602(c)
    \/ \E c \in Users : Resume_declineCall_664(c)
    \/ \E c \in Users : Resume_endCall_893(c)
    \/ \E c \in Users : Resume_endCall_900(c)

\* every notification is eventually handled and every awaited request
\* eventually returns; the users press buttons when they like
SpecDecline ==
    /\ Init /\ [][NextDecline]_vars
    /\ \A c \in Users :
          /\ WF_vars(DeliverIncomingCall(c))
          /\ WF_vars(DeliverCallUpdate(c))
          /\ WF_vars(DeliverSignal(c))
          /\ WF_vars(Resume_initiateCall_418(c))
          /\ WF_vars(Resume_initiateCall_421(c))
          /\ WF_vars(Resume_initiateCall_443(c))
          /\ WF_vars(Resume_setupWebRTC_474(c))
          /\ WF_vars(Resume_setupWebRTC_526(c))
          /\ WF_vars(Resume_handleIncomingCall_602(c))
          /\ WF_vars(Resume_declineCall_664(c))
          /\ WF_vars(Resume_endCall_893(c))
          /\ WF_vars(Resume_endCall_900(c))

\* bob, whose configured friend is alice, is called by a third user
NextStranger ==
    \/ StrangerCalls("bob")
    \/ StrangerOffers("bob")
    \/ NothingInFlight /\ StrangerEnds("bob")
    \/ \E c \in Users : AcceptCallClick(c)
    \/ \E c \in Users : IceCandidate(c)
    \/ \E c \in Users : DeliverIncomingCall(c)
    \/ \E c \in Users : DeliverCallUpdate(c)
    \/ \E c \in Users : DeliverSignal(c)
    \/ \E c \in Users : Resume_setupWebRTC_474(c)
    \/ \E c \in Users : Resume_handleIncomingCall_602(c)
    \/ \E c \in Users : Resume_acceptCall_633(c)
    \/ \E c \in Users : Resume_acceptCall_634(c)
    \/ \E c \in Users : Resume_handleSignal_566(c)
    \/ \E c \in Users : Resume_endCall_893(c)
    \/ \E c \in Users : Resume_endCall_900(c)

SpecStranger == Init /\ [][NextStranger]_vars

\* one call from alice that bob may accept, and requests of any kind to the
\* edge function
NextEdge ==
    \/ FirstCallClick("alice")
    \/ \E c \in Users : AcceptCallClick(c)
    \/ NothingInFlight /\ EdgeRequest
    \/ \E c \in Users : DeliverIncomingCall(c)
    \/ \E c \in Users : DeliverCallUpdate(c)
    \/ \E c \in Users : DeliverSignal(c)
    \/ \E c \in Users : Resume_initiateCall_418(c)
    \/ \E c \in Users : Resume_initiateCall_421(c)
    \/ \E c \in Users : Resume_initiateCall_443(c)
    \/ \E c \in Users : Resume_setupWebRTC_474(c)
    \/ \E c \in Users : Resume_setupWebRTC_526(c)
    \/ \E c \in Users : Resume_handleIncomingCall_602(c)
    \/ \E c \in Users : Resume_acceptCall_633(c)
    \/ \E c \in Users : Resume_acceptCall_634(c)
    \/ \E c \in Users : Resume_handleSignal_566(c)
    \/ \E c \in Users : Resume_endCall_893(c)
    \/ \E c \in Users : Resume_endCall_900(c)

SpecEdge == Init /\ [][NextEdge]_vars

----------------------------------------------------------------------------
\* properties

\* the step hands the head of c's inbox to its handler
Delivers(c) == inbox[c] # <<>> /\ Len(inbox'[c]) < Len(inbox[c])

CallIds == 1..Len(calls)

\* C1: once a Call row is declined, busy, missed or ended, no step changes
\* its status
C1_TerminalStatusImmutable ==
    [][\A i \in CallIds :
          calls[i].call_status \in Terminal
              => calls'[i].call_status = calls[i].call_status]_vars

AllowedSteps ==
    {<<"calling", "ringing">>, <<"calling", "busy">>,
     <<"calling", "declined">>, <<"ringing", "declined">>,
     <<"calling", "missed">>, <<"ringing", "missed">>,
     <<"ringing", "accepted">>, <<"accepted", "connected">>}
    \cup {<<st, "ended">> : st \in NonTerminal}

\* C2: every change of a Call row's status is a step of the transition table
C2_StatusFollowsTable ==
    [][\A i \in CallIds :
          calls'[i].call_status # calls[i].call_status
              => <<calls[i].call_status, calls'[i].call_status>> \in AllowedSteps]_vars

\* every call is over, c has torn its session down (it holds no call id)
\* and has nothing in flight
Settled(c) ==
    /\ CallIds # {}
    /\ client[c].currentCallId = 0
    /\ \A i \in CallIds : calls[i].call_status \in Terminal
    /\ tasks[c] = {}
    /\ inbox[c] = <<>>

\* C3: after the call attempt has terminated and the client's operations
\* and notifications have all run, the client's busy flag is released (and
\* stays so: the client takes part in no further call)
C3_BusyReleasedAfterTermination ==
    \A c \in Users : Settled(c) => ~users[c].is_busy

\* C4: at most one Call row of the pair is in a non-terminal status
C4_AtMostOneActiveCall ==
    Cardinality({i \in CallIds : calls[i].call_status \in NonTerminal}) <= 1

\* C5: a Call row in a non-terminal status has a participant whose busy flag
\* is set
C5_ActiveCallHasBusyParty ==
    \A i \in CallIds :
        calls[i].call_status \in NonTerminal
            => \/ users[calls[i].caller_username].is_busy
               \/ users[calls[i].receiver_username].is_busy

\* C6: a client whose local status is idle has busy = false in its user record
C6_IdleImpliesNotBusy ==
    \A c \in Users : client[c].callStatus = "idle" => ~users[c].is_busy

\* nothing is in flight anywhere and the transport has nothing to report
Quiescent ==
    /\ \A u \in Users : tasks[u] = {} /\ inbox[u] = <<>>
    /\ ~ENABLED (\E u \in Users : TransportConnected(u))

\* C7: when alice has called, bob has accepted, nobody has hung up and
\* everything in flight has run, the offer is applied by bob, the answer by
\* alice, and the call is connected
C7_AcceptedCallConnects ==
    (/\ Quiescent
     /\ client["bob"].callStatus = "accepted"
     /\ client["bob"].peerConnection.open
     /\ client["alice"].currentCallId = client["bob"].currentCallId)
    => /\ client["bob"].peerConnection.remote = "offer"
       /\ client["alice"].peerConnection.remote = "answer"
       /\ client["alice"].peerConnection.conn = "connected"
       /\ client["bob"].peerConnection.conn = "connected"

\* C8: a candidate signal delivered for the client's current call is applied
\* to the transport (the client has no buffer that could hold it)
C8_CandidateNeverLost ==
    [][\A c \in Users :
          (/\ Delivers(c)
           /\ Head(inbox[c]).kind = "SIGNAL"
           /\ Head(inbox[c]).val = "ice-candidate"
           /\ Head(inbox[c]).id = client[c].currentCallId)
          => client'[c].peerConnection.applied
                 = client[c].peerConnection.applied + 1]_vars

\* C9: when a client hands an answer to setRemoteDescription, it is the
\* initiator and its transport object has its own offer as local description
C9_AnswerOnlyAfterLocalOffer ==
    [][\A c \in Users :
          (/\ Delivers(c)
           /\ Head(inbox[c]).kind = "SIGNAL"
           /\ AnswerBranch(client[c], Head(inbox[c]).id, Head(inbox[c]).val))
          => /\ client[c].isInitiator
             /\ client[c].peerConnection.open
             /\ client[c].peerConnection.sig = "have-local-offer"
             /\ client[c].peerConnection.local = "offer"]_vars

\* C10: the reconnection attempt counter never exceeds maxReconnectAttempts
C10_ReconnectAttemptsBounded ==
    \A c \in Users : client[c].reconnectAttempts <= maxReconnectAttempts

\* a client has used up all its reconnection attempts
C10_Witness ==
    \E c \in Users : client[c].reconnectAttempts = maxReconnectAttempts

\* the step is a disconnected or failed report of c's transport object
FaultStep(c) ==
    /\ client[c].peerConnection.open
    /\ client'[c].peerConnection.conn \in {"disconnected", "failed"}
    /\ client'[c].peerConnection.conn # client[c].peerConnection.conn

SetupOps == {"setupWebRTC_474", "setupWebRTC_526"}

\* c is in an established call: accepted on its side, transport in place
Established(c) ==
    /\ client[c].callStatus = "accepted"
    /\ client[c].currentCallId \in CallIds
    /\ client[c].peerConnection.open

\* c has reported the exhaustion and its endCall() waits for the relay
ExhaustedEnding(c) ==
    /\ client[c].notification = "Connection failed"
    /\ Task("endCall_893", 0) \in tasks[c]

\* C11: a disconnected or failed report that finds the attempt counter at
\* maxReconnectAttempts during an established call starts no negotiation,
\* sets the Call row to ended and shows the connection error; the client
\* then returns to idle
C11_ExhaustionEndsCall ==
    /\ [][\A c \in Users :
             (/\ FaultStep(c)
              /\ Established(c)
              /\ client[c].reconnectAttempts = maxReconnectAttempts)
             => /\ {t \in tasks'[c] : t.op \in SetupOps} \subseteq tasks[c]
                /\ client'[c].reconnectAttempts = maxReconnectAttempts
                /\ calls'[client[c].currentCallId].call_status = "ended"
                /\ client'[c].notification = "Connection failed"
                /\ ExhaustedEnding(c)']_vars
    /\ \A c \in Users :
          ExhaustedEnding(c)
              ~> (/\ client[c].callStatus = "idle"
                  /\ client[c].currentCallId = 0
                  /\ ~client[c].peerConnection.open)

\* a client has reported the exhaustion, its call is ended and it is idle
C11_Witness ==
    \E c \in Users :
        /\ client[c].notification = "Connection failed"
        /\ client[c].callStatus = "idle"
        /\ \E i \in CallIds : calls[i].call_status = "ended"

\* the step is a connected report of c's transport object
ConnectedStep(c) ==
    /\ client'[c].peerConnection.open
    /\ client'[c].peerConnection.conn = "connected"
    /\ client[c].peerConnection.conn # "connected"

\* C12: the attempt counter is 0 after a step in which the transport reports
\* connected, and a step that brings the counter back to 0 is such a report
C12_CounterResetOnConnect ==
    [][\A c \in Users :
          /\ ConnectedStep(c) => client'[c].reconnectAttempts = 0
          /\ (client[c].reconnectAttempts > 0 /\ client'[c].reconnectAttempts = 0)
                 => ConnectedStep(c)]_vars

\* both clients are still in the same accepted call
SameCall ==
    /\ \A u \in Users : client[u].callStatus = "accepted"
    /\ client["alice"].currentCallId \in CallIds
    /\ client["alice"].currentCallId = client["bob"].currentCallId

\* C13: a disconnected report during an established call with attempts left
\* increments the counter by one, and the reconnection it starts ends with
\* offer and answer applied on the transport objects of both clients, for
\* the same call, whichever client had the report
C13_DisconnectRenegotiates ==
    /\ [][\A c \in Users :
             (/\ FaultStep(c)
              /\ client'[c].peerConnection.conn = "disconnected"
              /\ Established(c)
              /\ client[c].reconnectAttempts < maxReconnectAttempts)
             => client'[c].reconnectAttempts = client[c].reconnectAttempts + 1]_vars
    /\ [](\A c \in Users :
             (/\ NothingInFlight
              /\ SameCall
              /\ client[c].reconnectAttempts > 0)
             => /\ Negotiated(client[c].peerConnection)
                /\ Negotiated(client[friendUser(c)].peerConnection))

\* c has taken call i up: as its receiver it has handled the insert, as its
\* caller it has stored the id of the inserted row
TookUp(c, i) ==
    \/ /\ calls[i].receiver_username = c
       /\ \A k \in 1..Len(inbox[c]) :
              ~(inbox[c][k].kind = "INSERT" /\ inbox[c][k].id = i)
    \/ /\ calls[i].caller_username = c
       /\ Task("initiateCall_443", i) \notin tasks[c]

\* end() or decline() has run to its cleanup on c: c held a call and holds
\* none now, and no overlay offers a button that could start a new operation
HasEnded(c) ==
    /\ client[c].callStatus = "idle"
    /\ client[c].currentCallId = 0
    /\ \E i \in CallIds : TookUp(c, i)
    /\ ~client[c].callOverlay
    /\ ~client[c].incomingCallOverlay
    /\ ~client[c].activeCallOverlay

InFlightOps == {"initiateCall_418", "initiateCall_421", "initiateCall_443",
                "acceptCall_633", "acceptCall_634", "handleIncomingCall_602",
                "setupWebRTC_474", "setupWebRTC_526"}

\* C14: after end() or decline() has run on a client, an initiate, accept or
\* incoming-call operation of that client that resumes leaves the local
\* status idle, does not set the busy flag and writes no Call row
C14_ResumeAfterEndIsNoOp ==
    [][\A c \in Users :
          (/\ HasEnded(c)
           /\ \E t \in tasks[c] \ tasks'[c] : t.op \in InFlightOps)
          => /\ client'[c].callStatus = "idle"
             /\ users'[c].is_busy => users[c].is_busy
             /\ calls' = calls]_vars

\* what an invocation of end() or decline() is compared on
Observed(s, c) ==
    <<[i \in 1..Len(s.calls) |-> s.calls[i].call_status], s.signaling,
      s.users[c].is_busy, s.client[c].callStatus>>

\* the relay answers: the suspended rest of endCall() / declineCall() runs
endCallRest(s, c) ==
    endCall_900(Drop(endCall_893(Drop(s, c, Task("endCall_893", 0)), c),
                     c, Task("endCall_900", 0)),
                c)

endCallDone(s, c) ==
    IF Task("endCall_893", 0) \in s.tasks[c] THEN endCallRest(s, c) ELSE s

declineCallDone(s, c) ==
    declineCall_664(Drop(s, c, Task("declineCall_664", 0)), c)

EndOnce(s, c) == endCallDone(endCall(s, c), c)
DeclineOnce(s, c) == declineCallDone(declineCall(s, c), c)

\* the second invocation made before the first has resumed
EndOverlapped(s, c) ==
    endCallRest(endCallDone(endCall(endCall(s, c), c), c), c)
DeclineOverlapped(s, c) ==
    declineCall_664(declineCallDone(declineCall(declineCall(s, c), c), c), c)

\* C15: from every non-idle state, end() invoked twice (one after the other,
\* or the second before the first has resumed) leaves the Call statuses, the
\* Signal rows, the busy flag and the local status as end() invoked once
\* does; the same for decline()
C15_EndDeclineIdempotent ==
    \A c \in Users :
        client[c].callStatus # "idle"
        => /\ Observed(EndOnce(EndOnce(State, c), c), c)
                 = Observed(EndOnce(State, c), c)
           /\ Observed(EndOverlapped(State, c), c)
                 = Observed(EndOnce(State, c), c)
           /\ Observed(DeclineOnce(DeclineOnce(State, c), c), c)
                 = Observed(DeclineOnce(State, c), c)
           /\ Observed(DeclineOverlapped(State, c), c)
                 = Observed(DeclineOnce(State, c), c)

\* a client in a call that is not over, with Signal rows, on which end()
\* and decline() both have something to do
C15_Witness ==
    \E c \in Users :
        /\ client[c].callStatus # "idle"
        /\ client[c].currentCallId \in CallIds
        /\ calls[client[c].currentCallId].call_status \in NonTerminal
        /\ users[c].is_busy
        /\ \E r \in signaling : r.call_id = client[c].currentCallId
        /\ Observed(EndOnce(State, c), c) # Observed(State, c)
        /\ Observed(DeclineOnce(State, c), c) # Observed(EndOnce(State, c), c)

\* the step is c's handling of the insert notification at the head of its
\* inbox (the handler's own update is notified to c as well, so the inbox
\* need not get shorter)
HandlesInsert(c) ==
    /\ inbox[c] # <<>>
    /\ Head(inbox[c]).kind = "INSERT"
    /\ LET s1 == handleIncomingCall(Popped(c), c, Head(inbox[c]).id)
       IN /\ inbox' = s1.inbox
          /\ client' = s1.client
          /\ calls' = s1.calls
          /\ tasks' = s1.tasks

\* C16: when the insert of a call for c is handled while c's local status
\* is not idle, the new Call row becomes busy and c's local status, call id,
\* room id and initiator role are left as they were
C16_BusyReplyKeepsSession ==
    [][\A c \in Users :
          (/\ HandlesInsert(c)
           /\ calls[Head(inbox[c]).id].receiver_username = c
           /\ calls[Head(inbox[c]).id].caller_username # c
           /\ client[c].callStatus # "idle")
          => /\ calls'[Head(inbox[c]).id].call_status = "busy"
             /\ client'[c].callStatus = client[c].callStatus
             /\ client'[c].currentCallId = client[c].currentCallId
             /\ client'[c].currentRoomId = client[c].currentRoomId
             /\ client'[c].isInitiator = client[c].isInitiator]_vars

\* C17: a Call row in calling or ringing that nobody accepts, declines or
\* ends eventually becomes missed, with its caller idle and not busy
C17_RingTimeoutToMissed ==
    \A i \in 1..MaxCalls :
        (i \in CallIds /\ calls[i].call_status \in {"calling", "ringing"})
        ~> (/\ i \in CallIds
            /\ calls[i].call_status = "missed"
            /\ client[calls[i].caller_username].callStatus = "idle"
            /\ ~users[calls[i].caller_username].is_busy)

\* the step is an invocation of initiate() by c that does something
Initiates(c) ==
    /\ client[c].callStatus = "idle"
    /\ LET s1 == initiateCall(State, c)
       IN /\ client' = s1.client
          /\ tasks' = s1.tasks
          /\ users' = s1.users
          /\ calls' = s1.calls
          /\ inbox' = s1.inbox
          /\ (client' # client \/ tasks' # tasks)

\* C18: an initiate() that finds the target offline leaves a Call row of
\* the caller with status missed and no Signal rows, and the caller's busy
\* flag false
C18_OfflineTargetMissed ==
    [][\A c \in Users :
          (Initiates(c) /\ ~users[friendUser(c)].is_online)
          => /\ \E i \in 1..Len(calls') :
                   /\ calls'[i].caller_username = c
                   /\ calls'[i].call_status = "missed"
                   /\ \A r \in signaling' : r.call_id # i
             /\ ~users'[c].is_busy]_vars

\* C19: when initiate() is invoked while the target is in a call and has
\* returned, a Call row of the caller has status busy; and no Call row is
\* set to ringing by a receiver that is in a call
C19_BusyTargetGetsBusy ==
    [][/\ \A c \in Users :
            (/\ Initiates(c)
             /\ client[friendUser(c)].callStatus # "idle"
             /\ tasks'[c] = tasks[c])
            => \E i \in 1..Len(calls') :
                  /\ calls'[i].caller_username = c
                  /\ calls'[i].call_status = "busy"
       /\ \A i \in CallIds :
            (calls[i].call_status # "ringing" /\ calls'[i].call_status = "ringing")
            => client[calls[i].receiver_username].callStatus = "idle"]_vars

SignalsOf(sig, call_id) == {r \in sig : r.call_id = call_id}

\* the step deletes Signal rows of call_id
PurgeStep(call_id) ==
    /\ signaling' \subseteq signaling
    /\ SignalsOf(signaling', call_id) # SignalsOf(signaling, call_id)

\* C20: one purge of a call_id, by cleanup_signals or by a client's end(),
\* leaves no Signal row of that call_id, and a second purge leaves the
\* table as the first one left it
C20_PurgeIdempotent ==
    /\ [][\A i \in CallIds :
             PurgeStep(i)
             => /\ SignalsOf(signaling', i) = {}
                /\ {r \in signaling' : r.call_id # i} = signaling']_vars
    /\ [](\A i \in CallIds :
             LET once == handleCleanupSignals(State, i)
             IN /\ SignalsOf(once.signaling, i) = {}
                /\ handleCleanupSignals(once, i).signaling = once.signaling)
    /\ [](\A c \in Users :
             client[c].currentCallId \in CallIds
             => LET purged == {r \in signaling : r.call_id # client[c].currentCallId}
                    once == endCall_893(State, c)
                    twice == endCall_893([once EXCEPT !.client[c].currentCallId =
                                             client[c].currentCallId], c)
                IN /\ once.signaling = purged
                   /\ twice.signaling = purged)

\* a client holds a remote description that came as a Signal row of its
\* call, and the Signal rows of that call have been purged
C20_Witness ==
    \E c \in Users :
        /\ client[c].currentCallId \in CallIds
        /\ client[c].peerConnection.remote # "none"
        /\ SignalsOf(signaling, client[c].currentCallId) = {}

\* the step is the purge request of c's end(), for the call id c holds
PurgeInvoked(c) ==
    /\ Task("endCall_893", 0) \in tasks[c]
    /\ LET s1 == endCall_893(Drop(State, c, Task("endCall_893", 0)), c)
       IN /\ tasks' = s1.tasks
          /\ signaling' = s1.signaling
          /\ calls' = s1.calls
          /\ client' = s1.client

BothIdle == \A u \in Users : client[u].callStatus = "idle"

\* C21: the purge of a call's Signal rows is requested by the clients
\* exactly once: no client requests it for a call whose purge has been
\* requested already, and it has been requested when the call is terminal,
\* both clients are idle and nothing is in flight
C21_PurgeExactlyOnce ==
    /\ [][\A c \in Users :
             (PurgeInvoked(c) /\ client[c].currentCallId \in CallIds)
             => ~calls[client[c].currentCallId].purged]_vars
    /\ [](\A i \in CallIds :
             (calls[i].call_status \in Terminal /\ BothIdle /\ NothingInFlight)
             => calls[i].purged)

\* C22: when a Call row is terminal, both clients are idle and nothing is in
\* flight, the table holds no Signal row of that call
C22_NoSignalsAfterTermination ==
    \A i \in CallIds :
        (calls[i].call_status \in Terminal /\ BothIdle /\ NothingInFlight)
        => SignalsOf(signaling, i) = {}

\* the step hands a Signal notification of c's current call to handleSignal
HandlesSignal(c) ==
    /\ Delivers(c)
    /\ Head(inbox[c]).kind = "SIGNAL"
    /\ Head(inbox[c]).id = client[c].currentCallId

\* C23: get_signals returns exactly the rows of the call_id and receiver,
\* in ascending created_at order; and a client starts handling a signal of
\* its call only when the handling of the signal before it has finished
C23_SignalsInCreationOrder ==
    /\ [](\A i \in CallIds : \A u \in Users :
             LET out == handleGetSignals(State, i, u)
             IN /\ {out[k] : k \in 1..Len(out)}
                      = {r \in signaling : r.call_id = i /\ r.receiver_username = u}
                /\ \A k \in 1..Len(out) : \A l \in k + 1..Len(out) :
                      /\ out[k] # out[l]
                      /\ out[k].created_at <= out[l].created_at)
    /\ [][\A c \in Users :
             HandlesSignal(c) => Task("handleSignal_566", 0) \notin tasks[c]]_vars

\* C24: a connected report of the transport during an accepted call starts
\* the duration clock and creates a Recording row with status recording;
\* and once everything in flight has run, the local status and the Call row
\* of the connected, unterminated call are connected
C24_ConnectedEntersConnected ==
    /\ [][\A c \in Users :
             (/\ ConnectedStep(c)
              /\ client[c].callStatus = "accepted"
              /\ client[c].currentCallId \in CallIds)
             => /\ client'[c].callStartTime = now
                /\ [call_id |-> client[c].currentCallId,
                    recording_status |-> "recording"] \in call_recordings']_vars
    /\ [](\A c \in Users :
             (/\ NothingInFlight
              /\ client[c].peerConnection.conn = "connected"
              /\ client[c].currentCallId \in CallIds
              /\ calls[client[c].currentCallId].call_status \in NonTerminal)
             => /\ client[c].callStatus = "connected"
                /\ calls[client[c].currentCallId].call_status = "connected")

Recording(i) == [call_id |-> i, recording_status |-> "recording"]

\* C25: a Recording row that has left recording is not written to another
\* status, and the Recording rows of a call that is over eventually leave
\* recording
C25_RecordingLeavesOnce ==
    /\ [][\A r \in call_recordings :
             r.recording_status # "recording" => r \in call_recordings']_vars
    /\ \A i \in 1..MaxCalls :
          (/\ i \in CallIds
           /\ calls[i].call_status \in Terminal
           /\ Recording(i) \in call_recordings)
          ~> Recording(i) \notin call_recordings

\* C26: a client makes at most one upload attempt for a call
C26_UploadAtMostOnce ==
    \A i \in CallIds : \A c \in Users : calls[i].uploads[c] <= 1

\* the step returns a room id to c
RoomReturned(c) ==
    /\ \E t \in tasks[c] \ tasks'[c] : t.op = "get_or_create_room_184"
    /\ tasks'[c] \subseteq tasks[c]

\* C27: the rooms table never holds two rows of the same unordered pair,
\* no step removes or changes a row, and every get_or_create_room call
\* returns the id of the row of its pair
C27_OneRoomPerPair ==
    /\ [](\A i, j \in 1..Len(rooms) :
             {rooms[i][1], rooms[i][2]} = {rooms[j][1], rooms[j][2]} => i = j)
    /\ [][/\ Len(rooms') >= Len(rooms)
          /\ \A i \in 1..Len(rooms) : rooms'[i] = rooms[i]]_vars
    /\ [][\A c \in Users :
             RoomReturned(c)
             => /\ client'[c].currentRoomId \in 1..Len(rooms')
                /\ rooms'[client'[c].currentRoomId] = SortedPair(c, friendUser(c))]_vars

\* C28: a users row with is_busy = true has is_online = true
C28_BusyImpliesOnline ==
    \A u \in Users : users[u].is_busy => users[u].is_online

\* C29: when a call that was connected before it ended has ended, both
\* clients are idle and nothing is in flight, the duration on the Call row is the number of
\* seconds from the connected report to the end of the call
C29_DurationIsConnectedToEnd ==
    \A i \in CallIds :
        (/\ calls[i].call_status = "ended"
         /\ calls[i].connected_at # 0
         /\ calls[i].connected_at < calls[i].ended_at
         /\ BothIdle
         /\ NothingInFlight)
        => calls[i].duration = calls[i].ended_at - calls[i].connected_at

Released(c) == client[c].callStatus = "idle" /\ ~users[c].is_busy

FailedEnding(c) ==
    /\ client[c].notification = "Failed to access microphone"
    /\ Task("endCall_893", 0) \in tasks[c]

\* C30: when getUserMedia rejects in setupWebRTC() (reached from
\* initiateCall() or acceptCall()) the failure is shown and the Call row the
\* client holds is written ended in that step, and the client then becomes
\* idle with its busy flag released; when the insert of the Call row fails in
\* initiateCall() no row is added and the client is idle and not busy at once
C30_FailureEndsAttempt ==
    /\ [][\A c \in Users :
             /\ Resume_setupWebRTC_531(c)
                => /\ client'[c].notification = "Failed to access microphone"
                   /\ IF client[c].currentCallId # 0
                      THEN /\ calls'[client[c].currentCallId].call_status
                                = "ended"
                           /\ FailedEnding(c)'
                      ELSE Released(c)'
             /\ Resume_initiateCall_461(c)
                => /\ client'[c].notification = "Failed to initiate call"
                   /\ calls' = calls
                   /\ Released(c)']_vars
    /\ \A c \in Users : FailedEnding(c) ~> Released(c)

C30_Witness ==
    /\ client["bob"].notification = "Failed to access microphone"
    /\ Released("bob")
    /\ Len(calls) = 1
    /\ calls[1].call_status = "ended"
    /\ Released("alice")

\* C31: a click on the call button while an earlier initiateCall() of the same
\* client is suspended before its insert has returned starts no second
\* initiateCall(): it changes neither the client nor its pending operations
C31_InitiateNotReentered ==
    [][\A c \in Users :
          InFlight(c, {"initiateCall_418", "initiateCall_421"})
          => ~Initiates(c)]_vars

InsertsCall(c) ==
    /\ Len(calls') = Len(calls) + 1
    /\ calls'[Len(calls')].caller_username = c

\* C32: a Call row is inserted for caller c, with status calling, only while
\* c's local status is idle and c's row is busy; and an initiateCall() that
\* reads the target as offline or busy inserts no row, writes no users row,
\* starts nothing and leaves c idle
C32_InitiateOnlyWhenIdleAndFree ==
    [][\A c \in Users :
          /\ InsertsCall(c)
             => /\ client[c].callStatus = "idle"
                /\ calls'[Len(calls')].call_status = "calling"
                /\ users'[c].is_busy
          /\ (/\ Initiates(c)
              /\ \/ ~users[friendUser(c)].is_online
                 \/ users[friendUser(c)].is_busy)
             => /\ calls' = calls
                /\ users' = users
                /\ tasks' = tasks
                /\ client'[c].callStatus = "idle"]_vars

\* C33: a click on accept while the local status is not ringing changes
\* neither the client nor any users row nor any Call row, and starts nothing
C33_AcceptOnlyWhenRinging ==
    [][\A c \in Users :
          (AcceptCallClick(c) /\ client[c].callStatus # "ringing")
          => UNCHANGED <<client, users, calls, tasks>>]_vars

\* C34: once the callee has declined (the Call row reads declined), both
\* clients are eventually idle with is_busy = false
C34_DeclineReleasesBoth ==
    \A i \in 1..MaxCalls :
        (i <= Len(calls) /\ calls[i].call_status = "declined")
        ~> \A u \in Users : Released(u)

\* C35: a heartbeat writes last_seen = now and is_online = true; a sweep sets
\* is_online = false on exactly the online rows whose last_seen is more than
\* the staleness window old and changes nothing else; hence the row of a page
\* that stays open, whose heartbeat fires every period, is online throughout
C35_HeartbeatKeepsOnline ==
    /\ [][\A c \in Users :
             HeartbeatTick(c)
             => /\ users'[c].last_seen = now
                /\ users'[c].is_online]_vars
    /\ [][MarkInactiveUsersOffline
          => /\ \A u \in Users :
                   users'[u] =
                       IF users[u].is_online
                          /\ users[u].last_seen < now - StaleWindow
                       THEN [users[u] EXCEPT !.is_online = FALSE]
                       ELSE users[u]
             /\ UNCHANGED <<calls, rooms, signaling, call_recordings,
                            inbox, client, tasks, now>>]_vars
    /\ [](\A c \in Users : client[c].pageOpen => users[c].is_online)

\* the sweep has just marked bob's closed page offline while alice, who has
\* been through a call and is idle again, is still online
C35_Witness ==
    /\ now = MaxTime
    /\ ~client["bob"].pageOpen
    /\ ~users["bob"].is_online
    /\ client["alice"].pageOpen
    /\ users["alice"].is_online
    /\ Len(calls) = 1
    /\ calls[1].call_status = "ended"
    /\ client["alice"].callStatus = "idle"

\* C36: no client has inserted more than one Recording row for a call
C36_OneRecordingRowPerCall ==
    \A i \in CallIds : \A c \in Users : calls[i].recordings[c] <= 1

\* C37: every Signal row written by a client for a Call row has the caller
\* and the receiver of that Call row as its sender and receiver
C37_SignalsBetweenParticipants ==
    \A r \in signaling :
        (r.sender_username \in Users /\ r.call_id \in CallIds)
        => {r.sender_username, r.receiver_username}
               = {calls[r.call_id].caller_username,
                  calls[r.call_id].receiver_username}

\* C38: handling a signal or a Call row update whose call id is not the
\* client's current call id only takes the event off the client's queue:
\* the client and every table stay as they are and nothing is started
C38_ForeignEventsIgnored ==
    [][\A c \in Users :
          (/\ DeliverSignal(c) \/ DeliverCallUpdate(c)
           /\ Head(inbox[c]).id # client[c].currentCallId)
          => /\ client' = client
             /\ inbox' = [inbox EXCEPT ![c] = Tail(@)]
             /\ UNCHANGED <<users, calls, rooms, signaling,
                            call_recordings, tasks, now>>]_vars

\* alice, who has no call, was sent the updates of carol's call to bob and
\* bob's answer, and has handled them all
C38_Witness ==
    /\ \E r \in signaling : /\ r.receiver_username = "alice"
                             /\ r.signal_type = "answer"
    /\ \E i \in CallIds : /\ calls[i].caller_username = "carol"
                           /\ calls[i].call_status = "ended"
    /\ inbox["alice"] = <<>>
    /\ client["alice"] = InitClient

\* C39: between two handlers and at every suspension point, a client is idle
\* exactly when it holds no current call id
C39_IdleIffNoCallId ==
    \A c \in Users :
        (client[c].callStatus = "idle") <=> (client[c].currentCallId = 0)

\* C40: a request with a readable body whose action is none of create_signal,
\* get_signals, cleanup_signals, update_call_status is answered with status
\* 400 and the error "Invalid action", and no Signal row and no Call row is
\* added, removed or changed
C40_InvalidActionRejected ==
    [][\A action \in RequestActions \ EdgeActions : \A data \in RequestData :
          EdgeRequestOf("POST", TRUE, action, data)
          => /\ response' = Response(400, "Invalid action")
             /\ UNCHANGED <<signaling, calls>>]_vars

\* the edge function has just refused an action while Signal rows and a
\* Call row were there
C40_Witness ==
    /\ response = Response(400, "Invalid action")
    /\ signaling # {}
    /\ calls # <<>>

====
